---------------------------- MODULE Spec2Model ----------------------------
(***************************************************************************)
(* A model of the two scripts of cifar10-app.                              *)
(*                                                                         *)
(*   patch_model.py   the Metadata Patcher: reads model/model.json, renames*)
(*                    batch_shape to batch_input_shape in InputLayer       *)
(*                    configs, strips one leading "sequential/" from the   *)
(*                    weight names, writes the file back and prints a      *)
(*                    textual self-check.                                  *)
(*   train_cifar10.py the Training Pipeline: a fixed sequence of stages,   *)
(*                    each in its own try/except.                          *)
(*                                                                         *)
(* A JSON object is a function from key strings to values (dict), a JSON   *)
(* array is a sequence, a JSON string that the code takes apart (a weight  *)
(* name) is a sequence of characters, and JSON null is the value Null.     *)
(* The file model/model.json is held as the JSON value its text encodes:   *)
(* json.dumps followed by json.loads gives back the same value for the     *)
(* objects, arrays, strings and nulls used here.                           *)
(*                                                                         *)
(* Spec is the Patcher (run up to MaxRuns times on the same file),         *)
(* PipelineSpec is one run of the Training Pipeline.                       *)
(***************************************************************************)
EXTENDS Integers, Sequences, FiniteSets, TLC

VARIABLES
    file,       \* model/model.json on disk
    j,          \* the parsed document held by the script
    layers,     \* the list the lookup of lines 8-13 returned
    pc,         \* position of the Patcher script
    before,     \* the file as it was when the current run read it
    hist,       \* the file after each completed run, oldest first
    out,        \* the two facts printed by the self-check of lines 29-32
    ppc,        \* position of the Training Pipeline script
    cls,        \* loop variable i of the per-class accuracy loop
    exitCode,   \* exit status of the pipeline process, -1 while it runs
    stdout,     \* the diagnostics the pipeline has printed
    started,    \* the stages that have begun to execute, in order
    failed,     \* the stages in which an exception was raised
    artifacts   \* the output files the pipeline has produced

pvars == <<file, j, layers, pc, before, hist, out>>
tvars == <<ppc, cls, exitCode, stdout, started, failed, artifacts>>
vars == <<file, j, layers, pc, before, hist, out,
          ppc, cls, exitCode, stdout, started, failed, artifacts>>

----------------------------------------------------------------------------
(* Bounds of the model.                                                    *)

MaxLayers == 2      \* layer descriptors in a document
MaxGroups == 2      \* manifest groups in a document
MaxWeights == 2     \* weight descriptors in a document, over all groups
MaxRuns == 2        \* times the Patcher is run on the file

----------------------------------------------------------------------------
(* JSON values and the dict operations the Patcher uses.                   *)

Null == [json_null |-> TRUE]
EmptyObj == [k \in {} |-> Null]
PyNone == "None"

\* d.get(k, dflt)
GetD(d, k, dflt) == IF k \in DOMAIN d THEN d[k] ELSE dflt

\* d[k] = v
Put(d, k, v) == [x \in DOMAIN d \cup {k} |-> IF x = k THEN v ELSE d[x]]

\* d without key k (the effect of d.pop(k) on d)
Del(d, k) == [x \in DOMAIN d \ {k} |-> d[x]]

\* the literal "sequential/" of lines 24-25 and 31
Prefix == <<"s", "e", "q", "u", "e", "n", "t", "i", "a", "l", "/">>

\* name.startswith(p)
StartsWith(name, p) ==
    /\ Len(name) >= Len(p)
    /\ SubSeq(name, 1, Len(p)) = p

\* name[len(p):]
DropPrefix(name, p) == SubSeq(name, Len(p) + 1, Len(name))

----------------------------------------------------------------------------
(* The input documents: the Model Description Documents the Patcher is     *)
(* started on.  A key of the path modelTopology / model_config / config /  *)
(* layers may be missing, or may hold null; weightsManifest and the        *)
(* "weights" key of a group may be missing.                                *)

\* all sequences over S of length at most n
RECURSIVE SeqsUpTo(_, _)
SeqsUpTo(S, n) ==
    IF n = 0 THEN {<<>>}
    ELSE LET shorter == SeqsUpTo(S, n - 1)
         IN  shorter \cup {Append(s, x) : s \in shorter, x \in S}

\* layer configs: dtype always, batch_shape and batch_input_shape optional
ConfigKeys == {"batch_shape", "batch_input_shape"}
ConfigValue(k) ==
    CASE k = "batch_shape" -> "V1"
      [] k = "batch_input_shape" -> "V2"
      [] OTHER -> "float32"
InputConfigs == {[k \in S \cup {"dtype"} |-> ConfigValue(k)] : S \in SUBSET ConfigKeys}

\* layer descriptors: class_name and config optional
InputLayersWithConfig ==
    {[class_name |-> c, config |-> cfg, name |-> "l"] :
        c \in {"InputLayer", "Dense"}, cfg \in InputConfigs}
InputLayersNoClass == {[config |-> cfg, name |-> "l"] : cfg \in InputConfigs}
InputLayersNoConfig == {[class_name |-> c, name |-> "l"] : c \in {"InputLayer", "Dense"}}
InputLayers == InputLayersWithConfig \cup InputLayersNoClass \cup InputLayersNoConfig

\* weight names: "k", "sequential/k", "sequential/sequential/k", "sequential/",
\* "sequential" (no slash) and "k/sequential/"
InputNames ==
    { <<"k">>, Prefix \o <<"k">>, Prefix \o Prefix \o <<"k">>, Prefix,
      SubSeq(Prefix, 1, Len(Prefix) - 1), <<"k", "/">> \o Prefix }

\* weight descriptors: name optional
InputWeights == {[name |-> n, shape |-> "s"] : n \in InputNames} \cup {[shape |-> "s"]}

\* manifest groups holding at most n weight descriptors: "weights" optional
InputGroups(n) ==
    {[paths |-> "p"]} \cup {[paths |-> "p", weights |-> ws] : ws \in SeqsUpTo(InputWeights, n)}

NumWeights(g) == IF "weights" \in DOMAIN g THEN Len(g.weights) ELSE 0

\* manifests of at most g groups holding at most n weight descriptors in all
RECURSIVE InputManifests(_, _)
InputManifests(g, n) ==
    IF g = 0 THEN {<<>>}
    ELSE {<<>>} \cup
         UNION { { <<m>> \o rest : rest \in InputManifests(g - 1, n - NumWeights(m)) } :
                 m \in InputGroups(n) }

\* the topology with the whole path present
Topology(ls) ==
    [keras_version |-> "3",
     model_config |-> [class_name |-> "Sequential",
                       config |-> [name |-> "sequential", layers |-> ls]]]

\* topologies whose path to the layer list is cut by a missing key or a null
CutTopologies ==
    { [keras_version |-> "3"],
      [keras_version |-> "3", model_config |-> Null],
      [keras_version |-> "3", model_config |-> [class_name |-> "Sequential"]],
      [keras_version |-> "3",
       model_config |-> [class_name |-> "Sequential", config |-> Null]],
      [keras_version |-> "3",
       model_config |-> [class_name |-> "Sequential",
                         config |-> [name |-> "sequential"]]] }

OneInputLayer ==
    <<[class_name |-> "InputLayer", config |-> [batch_shape |-> "V1", dtype |-> "float32"],
       name |-> "l"]>>
OneManifest == <<[paths |-> "p", weights |-> <<[name |-> Prefix \o <<"k">>, shape |-> "s"]>>]>>

\* documents whose layer list varies
LayerDocs ==
    {[format |-> "layers-model", modelTopology |-> Topology(ls), weightsManifest |-> OneManifest] :
        ls \in SeqsUpTo(InputLayers, MaxLayers)}

\* documents whose weights manifest varies
WeightDocs ==
    {[format |-> "layers-model", modelTopology |-> Topology(OneInputLayer), weightsManifest |-> wm] :
        wm \in InputManifests(MaxGroups, MaxWeights)}

\* documents with a key missing or null
PathDocs ==
    LET tops == CutTopologies \cup {Null, Topology(OneInputLayer)}
    IN  {[format |-> "layers-model", modelTopology |-> t, weightsManifest |-> OneManifest] :
            t \in tops}
        \cup {[format |-> "layers-model", modelTopology |-> t] : t \in tops}
        \cup {[format |-> "layers-model", weightsManifest |-> OneManifest],
              [format |-> "layers-model"]}

InputDocs == LayerDocs \cup WeightDocs \cup PathDocs

----------------------------------------------------------------------------
(* The Metadata Patcher, patch_model.py.                                   *)

\* the lookup written with subscripts, j["modelTopology"]["model_config"]...:
\* a missing key raises KeyError
LookupLayersStrict(doc) ==
    IF /\ "modelTopology" \in DOMAIN doc
       /\ doc["modelTopology"] # Null
       /\ "model_config" \in DOMAIN doc["modelTopology"]
       /\ doc["modelTopology"]["model_config"] # Null
       /\ "config" \in DOMAIN doc["modelTopology"]["model_config"]
       /\ doc["modelTopology"]["model_config"]["config"] # Null
       /\ "layers" \in DOMAIN doc["modelTopology"]["model_config"]["config"]
    THEN [raised |-> FALSE, layers |-> doc["modelTopology"]["model_config"]["config"]["layers"]]
    ELSE [raised |-> TRUE, layers |-> <<>>]

\* lines 8-13: the chain of .get calls.  x.get on a dict gives the value or
\* the default; on None (a null in the file) it raises AttributeError.
LookupLayers(doc) ==
    LET t == GetD(doc, "modelTopology", EmptyObj)
        mc == IF t = Null THEN Null ELSE GetD(t, "model_config", EmptyObj)
        c == IF mc = Null THEN Null ELSE GetD(mc, "config", EmptyObj)
    IN  IF c = Null
        THEN [raised |-> TRUE, layers |-> <<>>]
        ELSE [raised |-> FALSE, layers |-> GetD(c, "layers", <<>>)]

\* whether the list LookupLayers returns is the list inside the document
\* (and not the default [] of the last .get, which belongs to no document)
HasLayers(doc) ==
    /\ "modelTopology" \in DOMAIN doc
    /\ doc.modelTopology # Null
    /\ "model_config" \in DOMAIN doc.modelTopology
    /\ doc.modelTopology.model_config # Null
    /\ "config" \in DOMAIN doc.modelTopology.model_config
    /\ doc.modelTopology.model_config.config # Null
    /\ "layers" \in DOMAIN doc.modelTopology.model_config.config

\* the rename without the test for batch_input_shape: an existing value is
\* overwritten
RenameKeyClobber(cfg) ==
    IF "batch_shape" \in DOMAIN cfg
    THEN Put(Del(cfg, "batch_shape"), "batch_input_shape", cfg["batch_shape"])
    ELSE cfg

\* lines 17-18: the rename inside one config
RenameKey(cfg) ==
    IF "batch_shape" \in DOMAIN cfg /\ "batch_input_shape" \notin DOMAIN cfg
    THEN Put(Del(cfg, "batch_shape"), "batch_input_shape", cfg["batch_shape"])
    ELSE cfg

\* the loop body without the test of class_name: every layer's config is
\* renamed
PatchLayerAnyClass(L) ==
    IF "config" \in DOMAIN L
    THEN [L EXCEPT !["config"] = RenameKey(L["config"])]
    ELSE L

\* lines 15-18: the body of the loop over the layers.  cfg is the layer's own
\* config dict when the key is there, and then the rename shows in the layer.
PatchLayer(L) ==
    IF GetD(L, "class_name", PyNone) = "InputLayer" /\ "config" \in DOMAIN L
    THEN [L EXCEPT !["config"] = RenameKey(L["config"])]
    ELSE L

\* the strip with while in place of if: every leading "sequential/" goes
RECURSIVE DropAllPrefixes(_)
DropAllPrefixes(name) ==
    IF StartsWith(name, Prefix) THEN DropAllPrefixes(DropPrefix(name, Prefix)) ELSE name

PatchWeightRepeated(w) ==
    LET name == GetD(w, "name", <<>>)
    IN  IF StartsWith(name, Prefix)
        THEN [w EXCEPT !["name"] = DropAllPrefixes(name)]
        ELSE w

\* the strip that builds a new descriptor holding the name alone
PatchWeightNameOnly(w) ==
    LET name == GetD(w, "name", <<>>)
    IN  IF StartsWith(name, Prefix)
        THEN [name |-> DropPrefix(name, Prefix)]
        ELSE w

\* lines 23-25: the body of the loop over the weights of one group
PatchWeight(w) ==
    LET name == GetD(w, "name", <<>>)
    IN  IF StartsWith(name, Prefix)
        THEN [w EXCEPT !["name"] = DropPrefix(name, Prefix)]
        ELSE w

\* lines 22-25: the loop over m.get("weights", [])
PatchGroup(m) ==
    IF "weights" \in DOMAIN m
    THEN [m EXCEPT !["weights"] = [i \in 1..Len(m["weights"]) |-> PatchWeight(m["weights"][i])]]
    ELSE m

\* s.count("sequential/") for one string: occurrences, left to right, not
\* overlapping
RECURSIVE CountPrefix(_)
CountPrefix(name) ==
    IF Len(name) < Len(Prefix) THEN 0
    ELSE IF StartsWith(name, Prefix)
         THEN 1 + CountPrefix(DropPrefix(name, Prefix))
         ELSE CountPrefix(Tail(name))

RECURSIVE SumSeq(_)
SumSeq(ns) == IF ns = <<>> THEN 0 ELSE Head(ns) + SumSeq(Tail(ns))

\* line 31: the count over the text of the file.  In these documents the
\* only strings that can hold "sequential/" are the weight names.
CountInDoc(doc) ==
    LET wm == GetD(doc, "weightsManifest", <<>>)
        inGroup(m) ==
            LET ws == GetD(m, "weights", <<>>)
            IN  SumSeq([i \in 1..Len(ws) |-> CountPrefix(GetD(ws[i], "name", <<>>))])
    IN  SumSeq([g \in 1..Len(wm) |-> inGroup(wm[g])])

\* line 32: whether the text of the file holds "batch_shape" in quotes.  In
\* these documents that is a config key of some layer, of any class.
HasBatchShapeText(doc) ==
    /\ HasLayers(doc)
    /\ LET ls == doc.modelTopology.model_config.config.layers
       IN  \E i \in 1..Len(ls) :
               "config" \in DOMAIN ls[i] /\ "batch_shape" \in DOMAIN ls[i].config

NoOutput == [printed |-> FALSE, count |-> 0, has_batch_shape |-> FALSE]

PatcherInit ==
    /\ file \in InputDocs
    /\ j = EmptyObj
    /\ layers = <<>>
    /\ pc = "read"
    /\ before = file
    /\ hist = <<>>
    /\ out = NoOutput

\* lines 4-5
ReadFile ==
    /\ pc = "read"
    /\ j' = file
    /\ before' = file
    /\ pc' = "lookup"
    /\ UNCHANGED <<file, layers, hist, out>>
    /\ UNCHANGED tvars

\* lines 8-13; an AttributeError is not caught and ends the script
Lookup ==
    /\ pc = "lookup"
    /\ LET r == LookupLayers(j)
       IN  /\ layers' = r.layers
           /\ pc' = IF r.raised THEN "raised" ELSE "rename"
    /\ UNCHANGED <<file, j, before, hist, out>>
    /\ UNCHANGED tvars

\* lines 14-18: the loop mutates the layer dicts in place, so the change is
\* in j whenever the list is j's own
FixInputLayers ==
    /\ pc = "rename"
    /\ LET patched == [i \in 1..Len(layers) |-> PatchLayer(layers[i])]
       IN  /\ layers' = patched
           /\ j' = IF HasLayers(j)
                   THEN [j EXCEPT !["modelTopology"]["model_config"]["config"]["layers"] = patched]
                   ELSE j
    /\ pc' = "strip"
    /\ UNCHANGED <<file, before, hist, out>>
    /\ UNCHANGED tvars

\* lines 21-25
StripPrefixes ==
    /\ pc = "strip"
    /\ j' = IF "weightsManifest" \in DOMAIN j
            THEN [j EXCEPT !["weightsManifest"] =
                     [g \in 1..Len(j["weightsManifest"]) |-> PatchGroup(j["weightsManifest"][g])]]
            ELSE j
    /\ pc' = "write"
    /\ UNCHANGED <<file, layers, before, hist, out>>
    /\ UNCHANGED tvars

\* line 27
WriteFile ==
    /\ pc = "write"
    /\ file' = j
    /\ pc' = "verify"
    /\ UNCHANGED <<j, layers, before, hist, out>>
    /\ UNCHANGED tvars

\* lines 29-32
Verify ==
    /\ pc = "verify"
    /\ out' = [printed |-> TRUE, count |-> CountInDoc(file),
               has_batch_shape |-> HasBatchShapeText(file)]
    /\ hist' = Append(hist, file)
    /\ pc' = "done"
    /\ UNCHANGED <<file, j, layers, before>>
    /\ UNCHANGED tvars

\* the operator runs the script again on the file it left
RunAgain ==
    /\ pc = "done"
    /\ Len(hist) < MaxRuns
    /\ j' = EmptyObj
    /\ layers' = <<>>
    /\ out' = NoOutput
    /\ pc' = "read"
    /\ UNCHANGED <<file, before, hist>>
    /\ UNCHANGED tvars

PatcherNext ==
    \/ ReadFile
    \/ Lookup
    \/ FixInputLayers
    \/ StripPrefixes
    \/ WriteFile
    \/ Verify
    \/ RunAgain

----------------------------------------------------------------------------
(* The Training Pipeline, train_cifar10.py.  A library call either returns *)
(* or raises; which of the two is the environment's choice.                *)

\* range(10) of the per-class accuracy loop
NumClasses == 10

StageOrder == <<"setup", "load", "build", "train", "evaluate", "save", "export">>

PipelineInit ==
    /\ ppc = "setup"
    /\ cls = 0
    /\ exitCode = -1
    /\ stdout = <<>>
    /\ started = <<>>
    /\ failed = {}
    /\ artifacts = {}

\* an except block that ends in exit(1)
Abort(stage, msg) ==
    /\ stdout' = Append(stdout, msg)
    /\ failed' = failed \cup {stage}
    /\ exitCode' = 1
    /\ ppc' = "exited"

\* an except block that only prints: the script goes on at the next stage
Report(stage, msg, next) ==
    /\ stdout' = Append(stdout, msg)
    /\ failed' = failed \cup {stage}
    /\ exitCode' = exitCode
    /\ ppc' = next

\* a step that returns: its success line is printed
Proceed(msg, next) ==
    /\ stdout' = Append(stdout, msg)
    /\ failed' = failed
    /\ exitCode' = exitCode
    /\ ppc' = next

\* lines 6-22: the imports.  Only ImportError is caught; any other exception
\* of an import is uncaught and ends the process with the traceback and
\* status 1.
Setup ==
    /\ ppc = "setup"
    /\ started' = Append(started, "setup")
    /\ \/ Proceed("packages loaded", "load")
       \/ Abort("setup", "missing packages")
       \/ /\ stdout' = stdout
          /\ failed' = failed \cup {"setup"}
          /\ exitCode' = 1
          /\ ppc' = "exited"
    /\ UNCHANGED <<cls, artifacts>>
    /\ UNCHANGED pvars

\* lines 30-49
LoadData ==
    /\ ppc = "load"
    /\ started' = Append(started, "load")
    /\ \/ Proceed("dataset loaded", "build")
       \/ Abort("load", "data load failed")
    /\ UNCHANGED <<cls, artifacts>>
    /\ UNCHANGED pvars

\* lines 51-104
BuildModel ==
    /\ ppc = "build"
    /\ started' = Append(started, "build")
    /\ \/ Proceed("model built", "train")
       \/ Abort("build", "model build failed")
    /\ UNCHANGED <<cls, artifacts>>
    /\ UNCHANGED pvars

\* the training stage with an except block that only prints
TrainContinues ==
    /\ ppc = "train"
    /\ started' = Append(started, "train")
    /\ \/ Proceed("training done", "evaluate")
       \/ Report("train", "training failed", "evaluate")
    /\ UNCHANGED <<cls, artifacts>>
    /\ UNCHANGED pvars

\* lines 106-149
Train ==
    /\ ppc = "train"
    /\ started' = Append(started, "train")
    /\ \/ Proceed("training done", "evaluate")
       \/ Abort("train", "training failed")
    /\ UNCHANGED <<cls, artifacts>>
    /\ UNCHANGED pvars

\* lines 151-155 and the except of 168-169: model.evaluate
Evaluate ==
    /\ ppc = "evaluate"
    /\ started' = Append(started, "evaluate")
    /\ \/ Proceed("test accuracy", "predict")
       \/ Report("evaluate", "evaluation failed", "save")
    /\ UNCHANGED <<cls, artifacts>>
    /\ UNCHANGED pvars

\* lines 158-162 and the except of 168-169: model.predict and argmax
Predict ==
    /\ ppc = "predict"
    /\ \/ /\ Proceed("per-class header", "per_class")
          /\ cls' = 0
       \/ /\ Report("evaluate", "evaluation failed", "save")
          /\ cls' = cls
    /\ UNCHANGED <<started, artifacts>>
    /\ UNCHANGED pvars

\* lines 163-166 and the except of 168-169: one pass of the loop over the
\* classes; after the last class the try block is left
PerClass ==
    /\ ppc = "per_class"
    /\ cls < NumClasses
    /\ \/ /\ Proceed("class accuracy", IF cls + 1 < NumClasses THEN "per_class" ELSE "save")
          /\ cls' = cls + 1
       \/ /\ Report("evaluate", "evaluation failed", "save")
          /\ cls' = cls
    /\ UNCHANGED <<started, artifacts>>
    /\ UNCHANGED pvars

\* the checkpoint save with an except block that ends in exit(1)
SaveCheckpointFatal ==
    /\ ppc = "save"
    /\ started' = Append(started, "save")
    /\ \/ /\ Proceed("checkpoint saved", "convert")
          /\ artifacts' = artifacts \cup {"cifar10_model.h5"}
       \/ /\ Abort("save", "checkpoint save failed")
          /\ artifacts' = artifacts
    /\ UNCHANGED cls
    /\ UNCHANGED pvars

\* lines 171-177: the except block prints a warning and does not exit
SaveCheckpoint ==
    /\ ppc = "save"
    /\ started' = Append(started, "save")
    /\ \/ /\ Proceed("checkpoint saved", "convert")
          /\ artifacts' = artifacts \cup {"cifar10_model.h5"}
       \/ /\ Report("save", "checkpoint save failed", "convert")
          /\ artifacts' = artifacts
    /\ UNCHANGED cls
    /\ UNCHANGED pvars

\* lines 179-183 and the except of 196-198: save_keras_model
Convert ==
    /\ ppc = "convert"
    /\ started' = Append(started, "export")
    /\ \/ /\ Proceed("bundle saved", "listing")
          /\ artifacts' = artifacts \cup {"cifar10_tfjs_model"}
       \/ /\ Abort("export", "conversion failed")
          /\ artifacts' = artifacts
    /\ UNCHANGED cls
    /\ UNCHANGED pvars

\* lines 185-194 and the except of 196-198: the listing of the bundle's files
\* is inside the same try block
Listing ==
    /\ ppc = "listing"
    /\ \/ Proceed("bundle files listed", "banner")
       \/ Abort("export", "conversion failed")
    /\ UNCHANGED <<cls, started, artifacts>>
    /\ UNCHANGED pvars

\* lines 200-212: the end of the script, status 0
Banner ==
    /\ ppc = "banner"
    /\ stdout' = Append(stdout, "completion banner")
    /\ exitCode' = 0
    /\ ppc' = "done"
    /\ UNCHANGED <<cls, started, failed, artifacts>>
    /\ UNCHANGED pvars

PipelineNext ==
    \/ Setup
    \/ LoadData
    \/ BuildModel
    \/ Train
    \/ Evaluate
    \/ Predict
    \/ PerClass
    \/ SaveCheckpoint
    \/ Convert
    \/ Listing
    \/ Banner

----------------------------------------------------------------------------
(* The two specifications.  The scripts share no state: in each             *)
(* specification the other script is not running.                          *)

Init == PatcherInit /\ PipelineInit

Next == PatcherNext

Spec == Init /\ [][Next]_vars

\* the model/model.json lying about while the pipeline runs
PatcherIdle ==
    /\ file = [format |-> "layers-model", modelTopology |-> Topology(OneInputLayer),
               weightsManifest |-> OneManifest]
    /\ j = EmptyObj
    /\ layers = <<>>
    /\ pc = "read"
    /\ before = file
    /\ hist = <<>>
    /\ out = NoOutput

PipelineStart == PatcherIdle /\ PipelineInit

PipelineSpec == PipelineStart /\ [][PipelineNext]_vars

----------------------------------------------------------------------------
(* What the properties of the Patcher speak about.  These read the         *)
(* documents directly and use none of the Patcher's own operators.         *)

\* the current run has written the file: before is what it read
Patched == pc \in {"verify", "done"}

DocHasLayers(doc) ==
    /\ "modelTopology" \in DOMAIN doc
    /\ doc.modelTopology # Null
    /\ "model_config" \in DOMAIN doc.modelTopology
    /\ doc.modelTopology.model_config # Null
    /\ "config" \in DOMAIN doc.modelTopology.model_config
    /\ doc.modelTopology.model_config.config # Null
    /\ "layers" \in DOMAIN doc.modelTopology.model_config.config

DocLayers(doc) ==
    IF DocHasLayers(doc) THEN doc.modelTopology.model_config.config.layers ELSE <<>>

DocManifest(doc) ==
    IF "weightsManifest" \in DOMAIN doc THEN doc.weightsManifest ELSE <<>>

GroupWeights(m) == IF "weights" \in DOMAIN m THEN m.weights ELSE <<>>

\* the positions <<g, i>> of the weight descriptors of a document
WeightPositions(doc) ==
    UNION { { <<g, i>> : i \in 1..Len(GroupWeights(DocManifest(doc)[g])) } :
            g \in 1..Len(DocManifest(doc)) }

WeightAt(doc, pos) == DocManifest(doc)[pos[1]].weights[pos[2]]

IsInputLayer(L) == "class_name" \in DOMAIN L /\ L.class_name = "InputLayer"

HasKey(L, k) == "config" \in DOMAIN L /\ k \in DOMAIN L.config

\* name = "sequential/" + suffix
IsPrefixed(name, suffix) == name = Prefix \o suffix

BeginsWithPrefix(name) ==
    \E n \in 0..Len(name) : IsPrefixed(name, SubSeq(name, n + 1, Len(name)))

\* the two documents have the same lists: as many layers, groups and weights
SameShape(a, b) ==
    /\ Len(DocLayers(a)) = Len(DocLayers(b))
    /\ Len(DocManifest(a)) = Len(DocManifest(b))
    /\ \A g \in 1..Len(DocManifest(a)) :
           Len(GroupWeights(DocManifest(a)[g])) = Len(GroupWeights(DocManifest(b)[g]))

----------------------------------------------------------------------------
(* C1.  Idempotence: a second run of the Patcher on the file a first run   *)
(* left changes nothing, so the file after every later run equals the file *)
(* after the first run.                                                    *)
C1_Idempotent == \A n \in 2..Len(hist) : hist[n] = hist[1]

(* C2.  After a run of the Patcher no layer descriptor of class InputLayer *)
(* has the key batch_shape in its config.                                  *)
C2_NoBatchShapeLeft ==
    Patched =>
        \A i \in 1..Len(DocLayers(file)) :
            IsInputLayer(DocLayers(file)[i]) => ~HasKey(DocLayers(file)[i], "batch_shape")

(* C3.  After a run of the Patcher no weight name begins with              *)
(* "sequential/".                                                          *)
C3_NoPrefixLeft ==
    Patched =>
        \A pos \in WeightPositions(file) :
            "name" \in DOMAIN WeightAt(file, pos) => ~BeginsWithPrefix(WeightAt(file, pos).name)

(* C4.  Targeted rename: an InputLayer descriptor whose config has         *)
(* batch_shape = V and no batch_input_shape has, after the run,            *)
(* batch_input_shape = V and no batch_shape; a descriptor of any other     *)
(* class (or of none) is the same after the run as before.                 *)
C4_TargetedRename ==
    Patched =>
        /\ Len(DocLayers(file)) = Len(DocLayers(before))
        /\ \A i \in 1..Len(DocLayers(before)) :
               LET b == DocLayers(before)[i]
                   a == DocLayers(file)[i]
               IN  /\ ( /\ IsInputLayer(b)
                        /\ HasKey(b, "batch_shape")
                        /\ ~HasKey(b, "batch_input_shape") )
                       => /\ HasKey(a, "batch_input_shape")
                          /\ a.config.batch_input_shape = b.config.batch_shape
                          /\ ~HasKey(a, "batch_shape")
                   /\ ~IsInputLayer(b) => a = b

\* a run patched a document with an InputLayer to rename and a layer of
\* another class that has batch_shape too
C4_Witness ==
    /\ Patched
    /\ \E i, k \in 1..Len(DocLayers(before)) :
           /\ IsInputLayer(DocLayers(before)[i])
           /\ HasKey(DocLayers(before)[i], "batch_shape")
           /\ ~HasKey(DocLayers(before)[i], "batch_input_shape")
           /\ ~IsInputLayer(DocLayers(before)[k])
           /\ HasKey(DocLayers(before)[k], "batch_shape")
           /\ ~HasKey(DocLayers(before)[k], "batch_input_shape")

(* C5.  Non-clobber: an InputLayer descriptor whose config has both        *)
(* batch_shape and batch_input_shape keeps both keys with the values they  *)
(* had.                                                                    *)
C5_NonClobber ==
    Patched =>
        \A i \in 1..Len(DocLayers(before)) :
            LET b == DocLayers(before)[i]
            IN  ( /\ IsInputLayer(b)
                  /\ HasKey(b, "batch_shape")
                  /\ HasKey(b, "batch_input_shape") )
                => /\ i <= Len(DocLayers(file))
                   /\ HasKey(DocLayers(file)[i], "batch_input_shape")
                   /\ HasKey(DocLayers(file)[i], "batch_shape")
                   /\ DocLayers(file)[i].config.batch_input_shape = b.config.batch_input_shape
                   /\ DocLayers(file)[i].config.batch_shape = b.config.batch_shape

\* a run patched a document with an InputLayer that has both keys, holding
\* different values
C5_Witness ==
    /\ Patched
    /\ \E i \in 1..Len(DocLayers(before)) :
           /\ IsInputLayer(DocLayers(before)[i])
           /\ HasKey(DocLayers(before)[i], "batch_shape")
           /\ HasKey(DocLayers(before)[i], "batch_input_shape")
           /\ DocLayers(before)[i].config.batch_shape
                 # DocLayers(before)[i].config.batch_input_shape

(* C6.  Prefix strip: a weight name "sequential/" + suffix becomes exactly *)
(* suffix, a name that does not begin with the prefix stays as it is, and  *)
(* the name "sequential/" becomes the empty string.                        *)
C6_PrefixStrip ==
    Patched =>
        /\ SameShape(file, before)
        /\ \A pos \in WeightPositions(before) :
               LET b == WeightAt(before, pos)
                   a == WeightAt(file, pos)
               IN  "name" \in DOMAIN b =>
                       /\ "name" \in DOMAIN a
                       /\ BeginsWithPrefix(b.name) => IsPrefixed(b.name, a.name)
                       /\ ~BeginsWithPrefix(b.name) => a.name = b.name
                       /\ b.name = Prefix => a.name = <<>>

\* a run patched a document that had the name "sequential/", now empty, and
\* a name without the prefix
C6_Witness ==
    /\ Patched
    /\ \E p, q \in WeightPositions(before) :
           /\ "name" \in DOMAIN WeightAt(before, p)
           /\ WeightAt(before, p).name = Prefix
           /\ WeightAt(file, p).name = <<>>
           /\ "name" \in DOMAIN WeightAt(before, q)
           /\ ~BeginsWithPrefix(WeightAt(before, q).name)

\* a document with the two patched regions blanked: the batch_shape and
\* batch_input_shape keys of the InputLayer configs, and the text of the
\* weight names
MaskLayer(L) ==
    IF IsInputLayer(L) /\ "config" \in DOMAIN L
    THEN [L EXCEPT !.config =
             [k \in DOMAIN L.config \ {"batch_shape", "batch_input_shape"} |-> L.config[k]]]
    ELSE L

MaskWeight(w) == IF "name" \in DOMAIN w THEN [w EXCEPT !.name = <<>>] ELSE w

MaskGroup(m) ==
    IF "weights" \in DOMAIN m
    THEN [m EXCEPT !.weights = [i \in 1..Len(m.weights) |-> MaskWeight(m.weights[i])]]
    ELSE m

MaskManifest(doc) ==
    IF "weightsManifest" \in DOMAIN doc
    THEN [doc EXCEPT !.weightsManifest =
             [g \in 1..Len(doc.weightsManifest) |-> MaskGroup(doc.weightsManifest[g])]]
    ELSE doc

MaskLayers(doc) ==
    IF DocHasLayers(doc)
    THEN [doc EXCEPT !.modelTopology.model_config.config.layers =
             [i \in 1..Len(DocLayers(doc)) |-> MaskLayer(DocLayers(doc)[i])]]
    ELSE doc

Mask(doc) == MaskLayers(MaskManifest(doc))

(* C7.  Structural passthrough: apart from the batch_shape and             *)
(* batch_input_shape keys of InputLayer configs and the name fields of     *)
(* weight descriptors, the document after the run is the document before   *)
(* it: same keys, same values, as many layers, groups and weights in the   *)
(* same order.                                                             *)
C7_Passthrough == Patched => Mask(file) = Mask(before)

\* a run changed both the layer list and the manifest of its document
C7_Witness ==
    /\ Patched
    /\ DocLayers(file) # DocLayers(before)
    /\ DocManifest(file) # DocManifest(before)

\* no key on the path to the layer list holds null: each one is missing or
\* holds an object, as in the data model of the document
NoNullOnPath(doc) ==
    "modelTopology" \in DOMAIN doc =>
        /\ doc.modelTopology # Null
        /\ "model_config" \in DOMAIN doc.modelTopology =>
               /\ doc.modelTopology.model_config # Null
               /\ "config" \in DOMAIN doc.modelTopology.model_config =>
                      doc.modelTopology.model_config.config # Null

LacksManifest(doc) == "weightsManifest" \notin DOMAIN doc

LacksLayers(doc) == ~DocHasLayers(doc)

\* the layer list a is the list b with the rename applied
LayersRenamed(a, b) ==
    /\ Len(a) = Len(b)
    /\ \A i \in 1..Len(b) :
           ( /\ IsInputLayer(b[i])
             /\ HasKey(b[i], "batch_shape")
             /\ ~HasKey(b[i], "batch_input_shape") )
           => /\ ~HasKey(a[i], "batch_shape")
              /\ HasKey(a[i], "batch_input_shape")
              /\ a[i].config.batch_input_shape = b[i].config.batch_shape

\* the weight names of document a are those of b with the prefix stripped
NamesStripped(a, b) ==
    /\ WeightPositions(a) = WeightPositions(b)
    /\ \A pos \in WeightPositions(b) :
           ( /\ "name" \in DOMAIN WeightAt(b, pos)
             /\ BeginsWithPrefix(WeightAt(b, pos).name) )
           => /\ "name" \in DOMAIN WeightAt(a, pos)
              /\ WeightAt(b, pos).name = Prefix \o WeightAt(a, pos).name

----------------------------------------------------------------------------
(* What the properties of the Training Pipeline speak about.               *)

\* the stages whose except block ends in exit(1)
FatalStages == {"setup", "load", "build", "train", "export"}

Ended == ppc \in {"done", "exited"}

LastStarted == started[Len(started)]

IsPrefixOf(s, t) == Len(s) <= Len(t) /\ s = SubSeq(t, 1, Len(s))

(* C9.  Exit status: the process ends with status 1, having started no     *)
(* later stage, exactly when a fatal stage (setup, load, build, train,     *)
(* export) failed; a failure of evaluation or of the checkpoint save is    *)
(* reported and the later stages still run; and the run reaches the        *)
(* completion banner with status 0 whenever no fatal stage failed.         *)
C9_ExitStatus ==
    /\ exitCode = 1 <=> failed \cap FatalStages # {}
    /\ exitCode = 1 =>
           /\ ppc = "exited"
           /\ LastStarted \in failed \cap FatalStages
           /\ Cardinality(failed \cap FatalStages) = 1
    /\ ppc = "exited" => exitCode = 1
    /\ ppc = "done" <=> exitCode = 0
    /\ ppc = "done" =>
           /\ failed \cap FatalStages = {}
           /\ started = StageOrder
           /\ stdout[Len(stdout)] = "completion banner"
    /\ (Ended /\ "evaluate" \in failed) =>
           /\ IsPrefixOf(<<"setup", "load", "build", "train", "evaluate", "save", "export">>,
                         started)
           /\ "evaluation failed" \in {stdout[n] : n \in 1..Len(stdout)}
    /\ (Ended /\ "save" \in failed) =>
           /\ LastStarted = "export"
           /\ "checkpoint save failed" \in {stdout[n] : n \in 1..Len(stdout)}
    /\ ~Ended => ENABLED PipelineNext

\* a run reached the banner with status 0 although evaluation and the
\* checkpoint save both failed
C9_Witness ==
    /\ ppc = "done"
    /\ exitCode = 0
    /\ failed = {"evaluate", "save"}

(* C10 as stated.  Abort on failure: once any stage has failed, no later   *)
(* stage is executed.                                                      *)
C10_AbortOnAnyFailure == [][failed # {} => started' = started]_vars

(* C10 as amended.  The stages run in the fixed order setup, load, build,  *)
(* train, evaluate, save, export, and a failure of setup, load, build,     *)
(* train or export aborts the remainder: once one of them has failed, no   *)
(* later stage is executed and nothing more is printed.  (A failure of     *)
(* evaluation or of the checkpoint save does not abort.)                   *)
C10_AbortOnFatalFailure ==
    /\ [](IsPrefixOf(started, StageOrder))
    /\ [][failed \cap FatalStages # {} => (started' = started /\ stdout' = stdout)]_vars
    /\ [][started' # started => failed \cap FatalStages = {}]_vars

\* training failed and the run ended there, with evaluation never started
C10_Witness ==
    /\ ppc = "exited"
    /\ failed = {"train"}
    /\ started = <<"setup", "load", "build", "train">>

=============================================================================
